---- MODULE Spec2Model ----
(***************************************************************************)
(* Verification model of renogy_ble/shunt.py: the Smart Shunt payload      *)
(* decoder (parse_shunt_payload), the per-device energy integrator         *)
(* (ShuntBleClient._integrate_energy) and the read session                 *)
(* (ShuntBleClient.read_device).                                           *)
(* The availability tracker of the device handle                           *)
(* (RenogyBLEDevice.update_availability of renogy_ble/ble.py) is modelled  *)
(* from its specification.                                                 *)
(* Spec is the read session, SpecParse the decoder and scanner called      *)
(* directly, SpecEnergy the integrator called directly, SpecAvail the      *)
(* availability tracker.                                                   *)
(*                                                                         *)
(* Numbers.  Python floats are modelled by exact fixed-point integers:     *)
(*   voltages, currents and power in hundredths (round(x, 2)),             *)
(*   state of charge and temperature in tenths (round(x, 1)),              *)
(*   time in whole seconds, energy in centiwatt-seconds.                   *)
(* Optional values (None) are sequences of length at most one:             *)
(*   None == <<>>, Some(v) == <<v>>.                                       *)
(* A dict is a function whose domain is its set of keys.                   *)
(***************************************************************************)
EXTENDS Integers, Sequences, FiniteSets, TLC

VARIABLES
    pc,            \* position of the read_device coroutine
    payload,       \* bytearray filled by notification_handler
    event,         \* asyncio.Event: set / cleared
    error,         \* local `error` of read_device (None or exception kind)
    success,       \* local `success` of read_device
    is_connected,  \* client.is_connected of the acquired client
    start,         \* loop.time() taken right after start_notify
    now,           \* loop.time(): the event loop's clock, in seconds
    parsed_data,   \* device.parsed_data
    energy_state,  \* ShuntBleClient._energy_state
    result,        \* what the call handed to its caller: None or Some(ReadResult)
    pending,       \* exception in flight while the finally block runs
    stream,        \* bytes the shunt has still to notify (transport side)
    calls,         \* transport primitives invoked by the current session, in order
    pre_data,      \* device.parsed_data when the current call started
    first_fault,   \* first exception raised in the current session ("none" if none)
    faults,        \* exceptions raised by the steps of the current session, in order
    conn_at_cleanup, \* client.is_connected as read by the finally block
    subscribed,    \* notification_handler is registered with the transport
    cancelled_at,  \* await in which the current call was cancelled ("none" if not)
    reads,         \* number of read_device calls made so far
    input,         \* argument of the decoder calls (pure-function harness)
    parsed,        \* result of parse_shunt_payload(input)
    window,        \* result of _find_valid_payload_window(input, expected_length)
    ppc,           \* position of the pure-function harness
    e_prev,        \* _energy_state before the last direct _integrate_energy call
    e_call,        \* arguments of that call: None or Some(<<address, power, now>>)
    e_ret,         \* value that call returned
    e_hist,        \* per address, the <<power, now>> of every direct call so far
    e_count,       \* number of direct _integrate_energy calls
    failure_count, \* RenogyBLEDevice.failure_count
    available,     \* RenogyBLEDevice.available
    last_unavailable_time, \* RenogyBLEDevice.last_unavailable_time
    avail_hist     \* the `success` arguments of the update_availability calls

vars == <<pc, payload, event, error, success, is_connected, start, now,
          parsed_data, energy_state, result, pending, stream, calls, pre_data,
          first_fault, faults, conn_at_cleanup, subscribed, cancelled_at, reads, input,
          parsed, window, ppc, e_prev, e_call, e_ret, e_hist, e_count,
          failure_count, available, last_unavailable_time, avail_hist>>

sessionVars == <<pc, payload, event, error, success, is_connected, start, now,
                 parsed_data, energy_state, result, pending, stream, calls,
                 pre_data, first_fault, faults, conn_at_cleanup, subscribed,
                 cancelled_at, reads>>

parseVars == <<input, parsed, window, ppc>>

energyVars == <<e_prev, e_call, e_ret, e_hist, e_count>>

availVars == <<failure_count, available, last_unavailable_time, avail_hist>>

harnessVars == <<parseVars, energyVars, availVars>>

\* the session state but for the energy integrator's
sessionRest == <<pc, payload, event, error, success, is_connected, start, now,
                 parsed_data, result, pending, stream, calls, pre_data,
                 first_fault, faults, conn_at_cleanup, subscribed,
                 cancelled_at, reads>>

----------------------------------------------------------------------------
(* Bounds of the model *)

\* leading garbage bytes put in front of a frame
MaxGarbage == 5
\* read_device calls per behaviour
MaxReads == 2
\* largest value of the event-loop clock
MaxClock == 4
\* direct _integrate_energy calls per behaviour
MaxIntegrations == 3
\* update_availability calls per behaviour
MaxUpdates == 6

----------------------------------------------------------------------------
(* Program constants *)

SHUNT_EXPECTED_PAYLOAD_LENGTH == 110
\* ShuntBleClient(max_notification_wait_time=3.0), in seconds
MAX_NOTIFICATION_WAIT_TIME == 3

KEY_SHUNT_VOLTAGE == "shunt_voltage"
KEY_SHUNT_CURRENT == "shunt_current"
KEY_SHUNT_POWER == "shunt_power"
KEY_SHUNT_SOC == "shunt_soc"
KEY_SHUNT_ENERGY == "shunt_energy"

None == <<>>
Some(v) == <<v>>
IsNone(o) == o = <<>>
Val(o) == o[1]

EmptyDict == [k \in {} |-> None]

----------------------------------------------------------------------------
(* Integer helpers standing for Python's int / float primitives *)

Abs(x) == IF x < 0 THEN -x ELSE x

RECURSIVE Pow(_, _)
Pow(b, e) == IF e = 0 THEN 1 ELSE b * Pow(b, e - 1)

\* round(n / d) for n >= 0, d > 0, ties to even (Python's round)
RoundPos(n, d) ==
    LET q == n \div d
        r == n % d
    IN  IF 2 * r < d THEN q
        ELSE IF 2 * r > d THEN q + 1
        ELSE IF q % 2 = 0 THEN q ELSE q + 1

\* round(n / d) for any integer n, d > 0
RoundDiv(n, d) == IF n >= 0 THEN RoundPos(n, d) ELSE -RoundPos(-n, d)

\* int.from_bytes(bs, byteorder="big", signed=False)
RECURSIVE FromBytesBig(_)
FromBytesBig(bs) ==
    IF Len(bs) = 0 THEN 0
    ELSE 256 * FromBytesBig(SubSeq(bs, 1, Len(bs) - 1)) + bs[Len(bs)]

\* int.from_bytes(bs, byteorder="big", signed=signed)
IntFromBytes(bs, signed) ==
    LET u == FromBytesBig(bs)
    IN  IF signed /\ Len(bs) > 0 /\ u >= Pow(2, 8 * Len(bs) - 1)
        THEN u - Pow(2, 8 * Len(bs))
        ELSE u

\* payload[lo:hi] for 0 <= lo <= hi (Python clips hi to len(payload))
Slice(bs, lo, hi) ==
    LET h == IF hi > Len(bs) THEN Len(bs) ELSE hi
    IN  IF lo >= h THEN <<>> ELSE SubSeq(bs, lo + 1, h)

\* _bytes_to_number(payload, offset, length, signed=, scale=1/scaleDen,
\* decimals=): the result in units of 10^-decimals, or None
bytes_to_number(bs, offset, length, signed, scaleDen, decimals) ==
    IF Len(bs) < offset + length THEN None
    ELSE LET value == IntFromBytes(Slice(bs, offset, offset + length), signed)
         IN  Some(RoundDiv(value * Pow(10, decimals), scaleDen))

----------------------------------------------------------------------------
(* The decoder *)

\* the range checks of parse_shunt_payload on the extracted numbers
\* (voltage and current in hundredths, power in hundredths of a watt)
VoltageRejected(voltage) == voltage < 0 \/ voltage > 8000
CurrentRejected(current) == Abs(current) > 50000
PowerRejected(power) == Abs(power) > 1000000

\* parse_shunt_payload(payload): None, or Some(dict of the decoded fields)
parse_shunt_payload(bs) ==
    LET voltage == bytes_to_number(bs, 25, 3, FALSE, 1000, 2)
        starter_voltage == bytes_to_number(bs, 30, 2, FALSE, 1000, 2)
        current == bytes_to_number(bs, 21, 3, TRUE, 1000, 2)
        power == IF ~IsNone(voltage) /\ ~IsNone(current)
                 THEN Some(RoundDiv(Val(voltage) * Val(current), 100))
                 ELSE None
        soc == bytes_to_number(bs, 34, 2, FALSE, 10, 1)
        battery_temp == bytes_to_number(bs, 66, 2, FALSE, 10, 1)
        temp2 == IF ~IsNone(battery_temp)
                    /\ (Val(battery_temp) < -400 \/ Val(battery_temp) > 1000)
                 THEN None ELSE battery_temp
        soc2 == IF ~IsNone(soc) /\ (Val(soc) < 0 \/ Val(soc) > 2000)
                THEN None ELSE soc
    IN  IF IsNone(voltage) \/ IsNone(current) \/ IsNone(power) THEN None
        ELSE IF VoltageRejected(Val(voltage)) THEN None
        ELSE IF CurrentRejected(Val(current)) THEN None
        ELSE IF PowerRejected(Val(power)) THEN None
        ELSE Some([shunt_voltage |-> voltage,
                   shunt_current |-> current,
                   shunt_power |-> power,
                   shunt_soc |-> soc2,
                   shunt_energy |-> None,
                   starter_battery_voltage |-> starter_voltage,
                   battery_temperature |-> temp2])

\* _find_valid_payload_window, the scan from one start offset on:
\* the first offset whose slice decodes, with the slice and its fields
RECURSIVE ScanFrom(_, _, _)
ScanFrom(buffer, expected_length, offset) ==
    IF offset + expected_length > Len(buffer) THEN None
    ELSE LET candidate == Slice(buffer, offset, offset + expected_length)
             fields == parse_shunt_payload(candidate)
         IN  IF ~IsNone(fields) THEN Some(<<candidate, Val(fields)>>)
             ELSE ScanFrom(buffer, expected_length, offset + 1)

\* a scanner that only ever tries offset 0
ScanAlignedOnly(buffer, expected_length) ==
    IF expected_length > Len(buffer) THEN None
    ELSE LET candidate == Slice(buffer, 0, expected_length)
             fields == parse_shunt_payload(candidate)
         IN  IF ~IsNone(fields) THEN Some(<<candidate, Val(fields)>>) ELSE None

\* _find_valid_payload_window(buffer, expected_length)
find_valid_payload_window(buffer, expected_length) ==
    ScanFrom(buffer, expected_length, 0)

----------------------------------------------------------------------------
(* Diagnostics attached by read_device *)

HexDigits == <<"0", "1", "2", "3", "4", "5", "6", "7",
               "8", "9", "a", "b", "c", "d", "e", "f">>

\* bytes.hex(): two lower-case hex digits per byte
Hex(bs) ==
    [i \in 1..(2 * Len(bs)) |->
        LET b == bs[(i + 1) \div 2]
        IN  IF i % 2 = 1 THEN HexDigits[(b \div 16) + 1]
            ELSE HexDigits[(b % 16) + 1]]

\* the raw_words list: big-endian unsigned 16-bit words of the payload
RawWords(bs) ==
    [i \in 1..(Len(bs) \div 2) |->
        IntFromBytes(Slice(bs, (i - 1) * 2, i * 2), FALSE)]

----------------------------------------------------------------------------
(* The energy integrator *)

\* an integrator that keeps the old timestamp when it adds nothing
integrate_energy_stale_ts(state, device_address, power_w, now_ts) ==
    IF device_address \notin DOMAIN state
    THEN [state |-> [a \in DOMAIN state \cup {device_address} |->
                        IF a = device_address THEN <<now_ts, 0>> ELSE state[a]],
          ret |-> 0]
    ELSE LET last_ts == state[device_address][1]
             net_wh == state[device_address][2]
             dt == now_ts - last_ts
         IN  IF 0 < dt /\ dt < 36000 /\ ~IsNone(power_w)
             THEN [state |-> [state EXCEPT ![device_address] =
                                 <<now_ts, net_wh + Val(power_w) * dt>>],
                   ret |-> net_wh + Val(power_w) * dt]
             ELSE [state |-> state, ret |-> net_wh]

\* an integrator that keeps one entry for all the devices
integrate_energy_shared(state, device_address, power_w, now_ts) ==
    IF DOMAIN state = {}
    THEN [state |-> [a \in {device_address} |-> <<now_ts, 0>>], ret |-> 0]
    ELSE LET old == CHOOSE a \in DOMAIN state : TRUE
             last_ts == state[old][1]
             net_wh == state[old][2]
             dt == now_ts - last_ts
             net2 == IF 0 < dt /\ dt < 36000 /\ ~IsNone(power_w)
                     THEN net_wh + Val(power_w) * dt
                     ELSE net_wh
         IN  [state |-> [a \in DOMAIN state \cup {device_address} |->
                            <<now_ts, net2>>],
              ret |-> net2]

\* ShuntBleClient._integrate_energy(device_address=, power_w=, now_ts=):
\* the new _energy_state and the returned net energy.  An entry is
\* <<last_ts, net>>; net and the returned value are in centiwatt-seconds
\* (net_wh = net / 360000, the returned kWh = net / 360000000).
integrate_energy(state, device_address, power_w, now_ts) ==
    IF device_address \notin DOMAIN state
    THEN [state |-> [a \in DOMAIN state \cup {device_address} |->
                        IF a = device_address THEN <<now_ts, 0>> ELSE state[a]],
          ret |-> 0]
    ELSE LET last_ts == state[device_address][1]
             net_wh == state[device_address][2]
             dt == now_ts - last_ts
             net2 == IF 0 < dt /\ dt < 36000 /\ ~IsNone(power_w)
                     THEN net_wh + Val(power_w) * dt
                     ELSE net_wh
         IN  [state |-> [state EXCEPT ![device_address] = <<now_ts, net2>>],
              ret |-> net2]

\* round(net_kwh, 3): thousandths of a kWh
RoundKwh3(net) == RoundDiv(net, 360000)

----------------------------------------------------------------------------
(* Inputs: frames as the shunt sends them *)

\* value.to_bytes(n, "big", signed=...): two's complement, big-endian
ToBytes(value, n) ==
    LET u == IF value < 0 THEN value + Pow(256, n) ELSE value
    IN  [i \in 1..n |-> (u \div Pow(256, n - i)) % 256]

\* _build_payload(voltage, current, starter_voltage) of the test-suite, with
\* the voltages in mV and the current in mA; soc 85.4 %, temperature 24.5 C
build_payload(voltage_mv, current_ma, starter_mv) ==
    LET v == ToBytes(voltage_mv, 3)
        c == ToBytes(current_ma, 3)
        s == ToBytes(starter_mv, 2)
        soc == ToBytes(854, 2)
        t == ToBytes(245, 2)
    IN  [i \in 1..SHUNT_EXPECTED_PAYLOAD_LENGTH |->
            IF i \in 26..28 THEN v[i - 25]
            ELSE IF i \in 22..24 THEN c[i - 21]
            ELSE IF i \in 31..32 THEN s[i - 30]
            ELSE IF i \in 35..36 THEN soc[i - 34]
            ELSE IF i \in 67..68 THEN t[i - 66]
            ELSE 0]

\* the misaligned prefix of the tests: bytes 1, 2, ..., k
Garbage(k) == [i \in 1..k |-> i]

\* <<voltage in mV, current in mA>> of the frames the tests build
Readings == {<<13200, -5400>>, <<13200, 4300>>, <<14100, 3200>>,
             <<150000, -5400>>, <<500, -5400>>}

Frame(r) == build_payload(r[1], r[2], 13100)

\* lengths a capture is cut to
CutLengths == {0, 12, 27, 28, 36, 68, 109, 110}

\* the arguments the decoder and the scanner are called with
PayloadInputs ==
    {Garbage(k) \o Frame(r) : k \in 0..MaxGarbage, r \in Readings}
    \cup {Slice(Garbage(k) \o Frame(r), 0, n) :
             k \in {0, MaxGarbage}, r \in Readings, n \in CutLengths}

----------------------------------------------------------------------------
(* The read session: ShuntBleClient.read_device(device) *)

\* device.address of the one device handle
DeviceAddress == "AA:BB:CC:DD:EE:FF"

\* parsed data left in the device by an earlier read
StaleData == [shunt_voltage |-> Some(1320),
              raw_payload |-> <<"s", "t", "a", "l", "e">>]

\* parsed data with a key the shunt decoder never produces
ForeignData == [shunt_voltage |-> Some(1320),
                battery_voltage |-> Some(1280)]

\* what the shunt sends during one session: a frame, possibly misaligned,
\* or a capture that stops short
Streams ==
    {Garbage(k) \o Frame(r) :
        k \in {0, 1, MaxGarbage}, r \in {<<14100, 3200>>, <<150000, -5400>>}}
    \cup {Slice(Frame(<<14100, 3200>>), 0, 60)}

\* sizes of the chunks one notification carries
ChunkSizes == {60, 120}

\* the exceptions of a session, each named with the step that raises it
ConnectErrors == {"BleakError: connect", "TimeoutError: connect"}
SubscribeError == "BleakError: start_notify"
WaitTimeoutError == "TimeoutError: No shunt payload"
ParseError == "RuntimeError: Empty shunt payload parsed"
UnsubscribeError == "BleakError: stop_notify"
DisconnectError == "BleakError: disconnect"

\* RenogyBleReadResult(success, parsed_data, error)
ReadResult(s, d, e) == [success |-> s, parsed_data |-> d, error |-> e]

\* the coroutine is suspended in an await
AwaitPoints == {"connecting", "start_notify", "waiting", "stop_notify",
                "disconnect"}

\* leaving read_device after the finally block: the pending exception
\* is re-raised, otherwise the result is returned
Leave(err) ==
    IF pending = "CancelledError"
    THEN /\ pc' = "raised"
         /\ result' = None
    ELSE /\ pc' = "returned"
         /\ result' = Some(ReadResult(success, parsed_data, err))

\* a cleanup that never disconnects
FinallyNoDisconnect(err, exc) ==
    /\ conn_at_cleanup' = Some(is_connected)
    /\ pending' = exc
    /\ calls' = calls
    /\ IF exc = "CancelledError"
       THEN pc' = "raised" /\ result' = None
       ELSE pc' = "returned"
            /\ result' = Some(ReadResult(success, parsed_data, err))

\* the finally block up to its await: disconnect is called if the client
\* reports itself connected; exc is the exception in flight ("none" if none)
Finally(err, exc) ==
    /\ conn_at_cleanup' = Some(is_connected)
    /\ pending' = exc
    /\ IF is_connected
       THEN /\ calls' = Append(calls, "disconnect")
            /\ pc' = "disconnect"
            /\ result' = None
       ELSE /\ calls' = calls
            /\ IF exc = "CancelledError"
               THEN pc' = "raised" /\ result' = None
               ELSE pc' = "returned"
                    /\ result' = Some(ReadResult(success, parsed_data, err))

\* a parse step that merges the new reading into the old parsed_data
ParseStepMerges ==
    LET raw_payload == Slice(payload, 0, SHUNT_EXPECTED_PAYLOAD_LENGTH)
        decoded == parse_shunt_payload(raw_payload)
    IN  /\ IF ~IsNone(decoded)
           THEN LET integ == integrate_energy(energy_state, DeviceAddress,
                                              Val(decoded)[KEY_SHUNT_POWER], now)
                    fresh == DOMAIN Val(decoded) \cup {"raw_payload", "raw_words"}
                    full == [k \in fresh \cup DOMAIN parsed_data |->
                               IF k = KEY_SHUNT_ENERGY
                               THEN Some(RoundKwh3(integ.ret))
                               ELSE IF k = "raw_payload" THEN Hex(raw_payload)
                               ELSE IF k = "raw_words" THEN RawWords(raw_payload)
                               ELSE IF k \in fresh THEN Val(decoded)[k]
                               ELSE parsed_data[k]]
                IN  /\ energy_state' = integ.state
                    /\ parsed_data' = full
                    /\ success' = TRUE
                    /\ UNCHANGED <<error, first_fault, faults>>
           ELSE /\ error' = Some(ParseError)
                /\ first_fault' = ParseError
                /\ faults' = Append(faults, ParseError)
                /\ UNCHANGED <<energy_state, parsed_data, success>>
        /\ calls' = Append(calls, "stop_notify")
        /\ pc' = "stop_notify"
        /\ UNCHANGED <<result, pending, conn_at_cleanup>>

\* lines 160-184: decode the first expected_length bytes, store the reading
\* and call stop_notify
ParseStep ==
    LET raw_payload == Slice(payload, 0, SHUNT_EXPECTED_PAYLOAD_LENGTH)
        decoded == parse_shunt_payload(raw_payload)
    IN  /\ IF ~IsNone(decoded)
           THEN LET integ == integrate_energy(energy_state, DeviceAddress,
                                              Val(decoded)[KEY_SHUNT_POWER], now)
                    full == [k \in DOMAIN Val(decoded)
                                   \cup {"raw_payload", "raw_words"} |->
                               IF k = KEY_SHUNT_ENERGY
                               THEN Some(RoundKwh3(integ.ret))
                               ELSE IF k = "raw_payload" THEN Hex(raw_payload)
                               ELSE IF k = "raw_words" THEN RawWords(raw_payload)
                               ELSE Val(decoded)[k]]
                IN  /\ energy_state' = integ.state
                    /\ parsed_data' = full
                    /\ success' = TRUE
                    /\ UNCHANGED <<error, first_fault, faults>>
           ELSE /\ error' = Some(ParseError)
                /\ first_fault' = ParseError
                /\ faults' = Append(faults, ParseError)
                /\ UNCHANGED <<energy_state, parsed_data, success>>
        /\ calls' = Append(calls, "stop_notify")
        /\ pc' = "stop_notify"
        /\ UNCHANGED <<result, pending, conn_at_cleanup>>

\* a wait loop that takes the first notification for a whole frame
WaitLoopOneShot(st) ==
    IF payload = <<>>
    THEN IF MAX_NOTIFICATION_WAIT_TIME - (now - st) <= 0
         THEN /\ error' = Some(WaitTimeoutError)
              /\ first_fault' = WaitTimeoutError
              /\ faults' = Append(faults, WaitTimeoutError)
              /\ Finally(Some(WaitTimeoutError), "none")
              /\ UNCHANGED <<energy_state, parsed_data, success>>
         ELSE /\ pc' = "waiting"
              /\ UNCHANGED <<error, first_fault, faults, energy_state, parsed_data,
                             success, result, pending, conn_at_cleanup, calls>>
    ELSE ParseStep

\* lines 151-158, from the loop test on, with `start` = st
WaitLoop(st) ==
    IF Len(payload) < SHUNT_EXPECTED_PAYLOAD_LENGTH
    THEN IF MAX_NOTIFICATION_WAIT_TIME - (now - st) <= 0
         THEN /\ error' = Some(WaitTimeoutError)
              /\ first_fault' = WaitTimeoutError
              /\ faults' = Append(faults, WaitTimeoutError)
              /\ Finally(Some(WaitTimeoutError), "none")
              /\ UNCHANGED <<energy_state, parsed_data, success>>
         ELSE /\ pc' = "waiting"
              /\ UNCHANGED <<error, first_fault, faults, energy_state, parsed_data,
                             success, result, pending, conn_at_cleanup, calls>>
    ELSE ParseStep

\* the caller calls read_device(device)
Call ==
    /\ pc \in {"idle", "returned", "raised"}
    /\ reads < MaxReads
    /\ reads' = reads + 1
    /\ payload' = <<>>
    /\ event' = FALSE
    /\ error' = None
    /\ success' = FALSE
    /\ pc' = "connecting"
    /\ calls' = <<"establish_connection">>
    /\ pre_data' = parsed_data
    /\ first_fault' = "none"
    /\ faults' = <<>>
    /\ conn_at_cleanup' = None
    /\ result' = None
    /\ pending' = "none"
    /\ is_connected' = FALSE
    /\ subscribed' = FALSE
    /\ cancelled_at' = "none"
    /\ stream' \in Streams
    /\ UNCHANGED <<start, now, parsed_data, energy_state, harnessVars>>

\* a connect-failure path that clears the device before returning
ConnectFailClears(exc) ==
    /\ pc = "connecting"
    /\ pc' = "returned"
    /\ first_fault' = exc
    /\ faults' = Append(faults, exc)
    /\ parsed_data' = EmptyDict
    /\ result' = Some(ReadResult(FALSE, EmptyDict, Some(exc)))
    /\ UNCHANGED <<payload, event, error, success, is_connected, start, now,
                   energy_state, pending, stream, calls, pre_data,
                   conn_at_cleanup, subscribed, cancelled_at, reads,
                   harnessVars>>

\* establish_connection raises BleakError or asyncio.TimeoutError
ConnectFail(exc) ==
    /\ pc = "connecting"
    /\ pc' = "returned"
    /\ first_fault' = exc
    /\ faults' = Append(faults, exc)
    /\ result' = Some(ReadResult(FALSE, parsed_data, Some(exc)))
    /\ UNCHANGED <<payload, event, error, success, is_connected, start, now,
                   parsed_data, energy_state, pending, stream, calls, pre_data,
                   conn_at_cleanup, subscribed, cancelled_at,
                   reads, harnessVars>>

\* establish_connection returns a client; start_notify is called
ConnectOk ==
    /\ pc = "connecting"
    /\ is_connected' = TRUE
    /\ subscribed' = TRUE
    /\ calls' = Append(calls, "start_notify")
    /\ pc' = "start_notify"
    /\ UNCHANGED <<payload, event, error, success, start, now, parsed_data,
                   energy_state, result, pending, stream, pre_data, first_fault, faults,
                   conn_at_cleanup, cancelled_at,
                   reads, harnessVars>>

\* the transport delivers a notification: notification_handler runs
Notify(n) ==
    /\ pc \in {"start_notify", "waiting", "stop_notify"}
    /\ subscribed
    /\ is_connected
    /\ stream # <<>>
    /\ payload' = payload \o Slice(stream, 0, n)
    /\ stream' = Slice(stream, n, Len(stream))
    /\ event' = TRUE
    /\ UNCHANGED <<pc, error, success, is_connected, start, now, parsed_data,
                   energy_state, result, pending, calls, pre_data, first_fault, faults,
                   conn_at_cleanup, subscribed, cancelled_at,
                   reads, harnessVars>>

\* start_notify returns
StartNotifyOk ==
    /\ pc = "start_notify"
    /\ start' = now
    /\ WaitLoop(now)
    /\ UNCHANGED <<payload, event, is_connected, now, stream, pre_data,
                   subscribed, cancelled_at,
                   reads, harnessVars>>

\* start_notify raises: `except (BleakError, Exception)`
StartNotifyFail(exc) ==
    /\ pc = "start_notify"
    /\ error' = Some(exc)
    /\ first_fault' = exc
    /\ faults' = Append(faults, exc)
    /\ subscribed' = FALSE
    /\ Finally(Some(exc), "none")
    /\ UNCHANGED <<payload, event, success, is_connected, start, now,
                   parsed_data, energy_state, stream, pre_data, cancelled_at,
                   reads,
                   harnessVars>>

\* a wake-up that starts the wait budget afresh
WaitWakeResets ==
    /\ pc = "waiting"
    /\ event
    /\ event' = FALSE
    /\ start' = now
    /\ WaitLoop(now)
    /\ UNCHANGED <<payload, is_connected, now, stream, pre_data,
                   subscribed, cancelled_at,
                   reads, harnessVars>>

\* wait_for(event.wait(), remaining) returns: the event was set
WaitWake ==
    /\ pc = "waiting"
    /\ event
    /\ event' = FALSE
    /\ WaitLoop(start)
    /\ UNCHANGED <<payload, is_connected, start, now, stream, pre_data,
                   subscribed, cancelled_at,
                   reads, harnessVars>>

\* wait_for raises asyncio.TimeoutError: the deadline passed, the event unset
WaitTimeout ==
    /\ pc = "waiting"
    /\ ~event
    /\ now - start >= MAX_NOTIFICATION_WAIT_TIME
    /\ error' = Some(WaitTimeoutError)
    /\ first_fault' = WaitTimeoutError
    /\ faults' = Append(faults, WaitTimeoutError)
    /\ Finally(Some(WaitTimeoutError), "none")
    /\ UNCHANGED <<payload, event, success, is_connected, start, now,
                   parsed_data, energy_state, stream, pre_data, subscribed,
                   cancelled_at,
                   reads, harnessVars>>

\* stop_notify returns
StopNotifyOk ==
    /\ pc = "stop_notify"
    /\ subscribed' = FALSE
    /\ Finally(error, "none")
    /\ UNCHANGED <<payload, event, error, success, is_connected, start, now,
                   parsed_data, energy_state, stream, pre_data, first_fault, faults,
                   cancelled_at,
                   reads, harnessVars>>

\* stop_notify raises: `except (BleakError, Exception)`
StopNotifyFail(exc) ==
    /\ pc = "stop_notify"
    /\ error' = Some(exc)
    /\ first_fault' = IF first_fault = "none" THEN exc ELSE first_fault
    /\ faults' = Append(faults, exc)
    /\ Finally(Some(exc), "none")
    /\ UNCHANGED <<payload, event, success, is_connected, start, now,
                   parsed_data, energy_state, stream, pre_data, subscribed,
                   cancelled_at,
                   reads, harnessVars>>

\* a handler that treats the cancellation like any other exception
OnCancelledSwallowed ==
    /\ error' = Some("CancelledError")
    /\ first_fault' = IF first_fault = "none" THEN "CancelledError" ELSE first_fault
    /\ faults' = Append(faults, "CancelledError")
    /\ Finally(Some("CancelledError"), "none")

\* a cancellation that leaves without running the cleanup
OnCancelledNoCleanup ==
    /\ pc' = "raised"
    /\ pending' = "CancelledError"
    /\ UNCHANGED <<error, first_fault, faults, result, calls, conn_at_cleanup>>

\* lines 187-188: `except asyncio.CancelledError: raise`, then the finally block
OnCancelled ==
    /\ UNCHANGED <<error, first_fault, faults>>
    /\ Finally(error, "CancelledError")

\* the caller cancels the task while establish_connection is awaited:
\* CancelledError is not caught by `except (BleakError, asyncio.TimeoutError)`
CancelConnecting ==
    /\ pc = "connecting"
    /\ pc' = "raised"
    /\ pending' = "CancelledError"
    /\ cancelled_at' = pc
    /\ UNCHANGED <<payload, event, error, success, is_connected, start, now,
                   parsed_data, energy_state, result, stream, calls, pre_data,
                   first_fault, faults, conn_at_cleanup, subscribed, reads, harnessVars>>

\* the caller cancels the task inside the try block
CancelInTry ==
    /\ pc \in {"start_notify", "waiting", "stop_notify"}
    /\ OnCancelled
    /\ cancelled_at' = pc
    /\ UNCHANGED <<payload, event, success, is_connected, start, now,
                   parsed_data, energy_state, stream, pre_data, subscribed,
                   reads, harnessVars>>

\* the caller cancels the task while disconnect is awaited in the finally
\* block: `except Exception` does not catch CancelledError
CancelDisconnect ==
    /\ pc = "disconnect"
    /\ pc' = "raised"
    /\ pending' = "CancelledError"
    /\ cancelled_at' = pc
    /\ UNCHANGED <<payload, event, error, success, is_connected, start, now,
                   parsed_data, energy_state, result, stream, calls, pre_data,
                   first_fault, faults, conn_at_cleanup, subscribed, reads, harnessVars>>

\* client.disconnect() returns
DisconnectOk ==
    /\ pc = "disconnect"
    /\ is_connected' = FALSE
    /\ Leave(error)
    /\ UNCHANGED <<payload, event, error, success, start, now, parsed_data,
                   energy_state, pending, stream, calls, pre_data, first_fault, faults,
                   conn_at_cleanup, subscribed, cancelled_at,
                   reads, harnessVars>>

\* a disconnect failure that replaces whatever error was captured
DisconnectFailOverwrites(exc) ==
    /\ pc = "disconnect"
    /\ error' = Some(exc)
    /\ first_fault' = IF first_fault = "none" THEN exc ELSE first_fault
    /\ faults' = Append(faults, exc)
    /\ Leave(error')
    /\ UNCHANGED <<payload, event, success, is_connected, start, now,
                   parsed_data, energy_state, pending, stream, calls, pre_data,
                   conn_at_cleanup, subscribed, cancelled_at,
                   reads, harnessVars>>

\* client.disconnect() raises: kept only if no error was captured before
DisconnectFail(exc) ==
    /\ pc = "disconnect"
    /\ error' = IF IsNone(error) THEN Some(exc) ELSE error
    /\ first_fault' = IF first_fault = "none" THEN exc ELSE first_fault
    /\ faults' = Append(faults, exc)
    /\ Leave(error')
    /\ UNCHANGED <<payload, event, success, is_connected, start, now,
                   parsed_data, energy_state, pending, stream, calls, pre_data,
                   conn_at_cleanup, subscribed, cancelled_at,
                   reads, harnessVars>>

\* the link drops while the session is suspended inside the try block
Drop ==
    /\ pc \in {"start_notify", "waiting", "stop_notify"}
    /\ is_connected
    /\ is_connected' = FALSE
    /\ UNCHANGED <<pc, payload, event, error, success, start, now, parsed_data,
                   energy_state, result, pending, stream, calls, pre_data,
                   first_fault, faults, conn_at_cleanup, subscribed, cancelled_at,
                   reads, harnessVars>>

\* loop.time() advances while the coroutine is suspended or between calls
Tick ==
    /\ pc \in AwaitPoints \cup {"idle", "returned", "raised"}
    /\ now < MaxClock
    /\ now' = now + 1
    /\ UNCHANGED <<pc, payload, event, error, success, is_connected, start,
                   parsed_data, energy_state, result, pending, stream, calls,
                   pre_data, first_fault, faults, conn_at_cleanup, subscribed, cancelled_at,
                   reads,
                   harnessVars>>

----------------------------------------------------------------------------
(* The decoder and the scanner called directly *)

ParseCall ==
    /\ ppc = "ready"
    /\ parsed' = parse_shunt_payload(input)
    /\ ppc' = "parsed"
    /\ UNCHANGED <<input, window, sessionVars, energyVars, availVars>>

FindCall ==
    /\ ppc = "ready"
    /\ window' = find_valid_payload_window(input, SHUNT_EXPECTED_PAYLOAD_LENGTH)
    /\ ppc' = "scanned"
    /\ UNCHANGED <<input, parsed, sessionVars, energyVars, availVars>>

NextInput ==
    /\ ppc \in {"parsed", "scanned"}
    /\ input' \in PayloadInputs
    /\ parsed' = None
    /\ window' = None
    /\ ppc' = "ready"
    /\ UNCHANGED <<sessionVars, energyVars, availVars>>

----------------------------------------------------------------------------
(* The energy integrator called directly *)

\* device addresses of the integration tests
Addresses == {"A", "B"}

\* power_w arguments, in hundredths of a watt (100 W, -50 W) or None
Powers == {None, Some(10000), Some(-5000)}

\* now_ts arguments, in seconds
Times == {900, 1000, 4600, 37000}

\* client._integrate_energy(device_address=a, power_w=p, now_ts=t)
Integrate(a, p, t) ==
    /\ e_count < MaxIntegrations
    /\ e_count' = e_count + 1
    /\ LET r == integrate_energy(energy_state, a, p, t)
       IN  /\ energy_state' = r.state
           /\ e_ret' = r.ret
    /\ e_prev' = energy_state
    /\ e_call' = Some(<<a, p, t>>)
    /\ e_hist' = [e_hist EXCEPT ![a] = Append(@, <<p, t>>)]
    /\ UNCHANGED <<sessionRest, parseVars, availVars>>

----------------------------------------------------------------------------
(* The availability tracker of the device handle *)

\* RenogyBLEDevice.max_failures
MAX_FAILURES == 3

\* a tracker that never counts past the first failure
update_availability_no_count(ok) ==
    /\ failure_count' = IF ok THEN 0 ELSE 1
    /\ available' = IF ok THEN TRUE ELSE available
    /\ UNCHANGED last_unavailable_time

\* RenogyBLEDevice.update_availability(success)
update_availability(ok) ==
    IF ok
    THEN /\ failure_count' = 0
         /\ available' = TRUE
         /\ UNCHANGED last_unavailable_time
    ELSE /\ failure_count' = failure_count + 1
         /\ IF failure_count + 1 >= MAX_FAILURES
            THEN /\ available' = FALSE
                 /\ last_unavailable_time' =
                        IF IsNone(last_unavailable_time) THEN Some(now)
                        ELSE last_unavailable_time
            ELSE UNCHANGED <<available, last_unavailable_time>>

\* the caller reports the outcome of a read
UpdateAvailability(ok) ==
    /\ Len(avail_hist) < MaxUpdates
    /\ avail_hist' = Append(avail_hist, ok)
    /\ update_availability(ok)
    /\ UNCHANGED <<sessionVars, parseVars, energyVars>>

----------------------------------------------------------------------------
(* Specifications *)

InitEnergy ==
    /\ e_prev = [a \in {} |-> <<0, 0>>]
    /\ e_call = None
    /\ e_ret = 0
    /\ e_hist = [a \in Addresses |-> <<>>]
    /\ e_count = 0

\* RenogyBLEDevice.__init__: available, no failure counted
InitAvail ==
    /\ failure_count = 0
    /\ available = TRUE
    /\ last_unavailable_time = None
    /\ avail_hist = <<>>

InitSession ==
    /\ pc = "idle"
    /\ payload = <<>>
    /\ event = FALSE
    /\ error = None
    /\ success = FALSE
    /\ is_connected = FALSE
    /\ start = 0
    /\ now = 0
    /\ energy_state = [a \in {} |-> <<0, 0>>]
    /\ result = None
    /\ pending = "none"
    /\ stream = <<>>
    /\ calls = <<>>
    /\ first_fault = "none"
    /\ faults = <<>>
    /\ conn_at_cleanup = None
    /\ subscribed = FALSE
    /\ cancelled_at = "none"
    /\ reads = 0

\* the read session, on a device with or without an earlier reading
Init ==
    /\ InitSession
    /\ parsed_data \in {EmptyDict, StaleData, ForeignData}
    /\ pre_data = parsed_data
    /\ input = <<>>
    /\ parsed = None
    /\ window = None
    /\ ppc = "off"
    /\ InitEnergy
    /\ InitAvail

Next ==
    \/ Call
    \/ \E exc \in ConnectErrors : ConnectFail(exc)
    \/ ConnectOk
    \/ \E n \in ChunkSizes : Notify(n)
    \/ StartNotifyOk
    \/ StartNotifyFail(SubscribeError)
    \/ WaitWake
    \/ WaitTimeout
    \/ StopNotifyOk
    \/ StopNotifyFail(UnsubscribeError)
    \/ CancelConnecting
    \/ CancelInTry
    \/ CancelDisconnect
    \/ DisconnectOk
    \/ DisconnectFail(DisconnectError)
    \/ Drop
    \/ Tick

Spec == Init /\ [][Next]_vars

\* the decoder and the scanner applied to captured byte strings
InitParse ==
    /\ InitSession
    /\ parsed_data = EmptyDict
    /\ pre_data = EmptyDict
    /\ input \in PayloadInputs
    /\ parsed = None
    /\ window = None
    /\ ppc = "ready"
    /\ InitEnergy
    /\ InitAvail

NextParse == ParseCall \/ FindCall \/ NextInput

SpecParse == InitParse /\ [][NextParse]_vars

\* the energy integrator of a fresh client, called directly
InitIntegrate ==
    /\ InitSession
    /\ parsed_data = EmptyDict
    /\ pre_data = EmptyDict
    /\ input = <<>>
    /\ parsed = None
    /\ window = None
    /\ ppc = "off"
    /\ InitEnergy
    /\ InitAvail

NextIntegrate == \E a \in Addresses, p \in Powers, t \in Times : Integrate(a, p, t)

SpecEnergy == InitIntegrate /\ [][NextIntegrate]_vars

\* the availability tracker of a fresh device handle
NextAvail == \E ok \in BOOLEAN : UpdateAvailability(ok)

SpecAvail == InitIntegrate /\ [][NextAvail]_vars

----------------------------------------------------------------------------
(* Properties of the read session *)

Count(seq, x) == Cardinality({i \in DOMAIN seq : seq[i] = x})

\* establish_connection returned a client in the current session
ConnectionAcquired == Len(calls) >= 2

\* the first failure of the session is a step after the connection:
\* the subscription, the wait or the decode
PostConnectFailures == {SubscribeError, WaitTimeoutError, ParseError}

\* the stream consists of k >= 1 garbage bytes and then a frame that decodes
MisalignedValid(bs, k, r) ==
    /\ bs = Garbage(k) \o Frame(r)
    /\ ~IsNone(parse_shunt_payload(Frame(r)))

\* C1: a session that acquired the connection and then failed in the
\* subscription, the wait or the decode returns parsed_data == {} and leaves
\* device.parsed_data == {}, whatever the device held before.
C1_PostConnectFailureClears ==
    (pc = "returned" /\ first_fault \in PostConnectFailures)
        => /\ Val(result).parsed_data = EmptyDict
           /\ parsed_data = EmptyDict

C3_ConnectTimeoutClears ==
    (pc = "returned" /\ first_fault = "TimeoutError: connect")
        => /\ Val(result).success = FALSE
           /\ Val(result).error = Some("TimeoutError: connect")
           /\ Val(result).parsed_data = EmptyDict
           /\ parsed_data = EmptyDict

\* C4: a session that acquired a connection calls disconnect at most once,
\* and when it ends it has called disconnect exactly once unless the client
\* reported itself not connected when the cleanup ran.
C4_DisconnectExactlyOnce ==
    /\ Count(calls, "disconnect") <= 1
    /\ (pc \in {"returned", "raised"} /\ ConnectionAcquired)
        => /\ ~IsNone(conn_at_cleanup)
           /\ Count(calls, "disconnect") = IF Val(conn_at_cleanup) THEN 1 ELSE 0

C4_Witness ==
    /\ pc = "returned"
    /\ first_fault = WaitTimeoutError
    /\ conn_at_cleanup = Some(TRUE)
    /\ Count(calls, "disconnect") = 1

\* C5: a call cancelled while it waits for the payload never yields a
\* ReadResult: once the cleanup is over the caller gets CancelledError,
\* also when the disconnect of the cleanup fails.
C5_CancelledWaitPropagates ==
    cancelled_at = "waiting"
        => /\ pc \in {"disconnect", "raised"}
           /\ result = None
           /\ pending = "CancelledError"

C5_Witness ==
    /\ cancelled_at = "waiting"
    /\ pc = "raised"
    /\ first_fault = DisconnectError
    /\ pending = "CancelledError"

\* C6: when a call is cancelled after the connection was acquired, the
\* cleanup has run by the time the caller sees the cancellation: the client's
\* connection state was read and disconnect was called if it was connected.
C6_CleanupBeforeCancellationSurfaces ==
    (pc = "raised" /\ cancelled_at \in AwaitPoints \ {"connecting"})
        => /\ ~IsNone(conn_at_cleanup)
           /\ Val(conn_at_cleanup) => calls[Len(calls)] = "disconnect"

C6_Witness ==
    /\ pc = "raised"
    /\ cancelled_at = "start_notify"
    /\ conn_at_cleanup = Some(TRUE)
    /\ calls = <<"establish_connection", "start_notify", "disconnect">>

\* C7: when the notified bytes are k >= 1 garbage bytes followed by a valid
\* frame and no transport step fails, read_device returns success == True,
\* no error, and the fields decoded from the valid frame alone.
C7_MisalignedStreamParsed ==
    \A k \in 1..MaxGarbage, r \in Readings :
        (/\ pc = "returned"
         /\ first_fault \in {"none", ParseError}
         /\ MisalignedValid(payload, k, r))
            => /\ Val(result).success = TRUE
               /\ Val(result).error = None
               /\ \A key \in {KEY_SHUNT_VOLTAGE, KEY_SHUNT_CURRENT,
                              KEY_SHUNT_POWER, KEY_SHUNT_SOC} :
                     /\ key \in DOMAIN Val(result).parsed_data
                     /\ Val(result).parsed_data[key]
                            = Val(parse_shunt_payload(Frame(r)))[key]

----------------------------------------------------------------------------
(* Properties of the decoder and the scanner *)

\* the offsets at which a window of expected_length bytes of bs decodes
ValidOffsets(bs, expected_length) ==
    {o \in 0..Len(bs) :
        /\ o + expected_length <= Len(bs)
        /\ ~IsNone(parse_shunt_payload(Slice(bs, o, o + expected_length)))}

Min(S) == CHOOSE x \in S : \A y \in S : x <= y

C9_UnrealisticVoltageRejected ==
    \A r \in Readings :
        (ppc = "parsed" /\ input = Frame(r) /\ (r[1] > 80000 \/ r[1] <= 500))
            => parsed = None

\* C10: every payload shorter than the 110-byte frame is rejected by the
\* decoder, also one that covers the voltage and current offsets only.
C10_ShortPayloadRejected ==
    (ppc = "parsed" /\ Len(input) < SHUNT_EXPECTED_PAYLOAD_LENGTH)
        => parsed = None

----------------------------------------------------------------------------
(* Properties of the energy integrator *)

\* the address, power and time of the last direct call
CallAddress == Val(e_call)[1]

CallPower == Val(e_call)[2]

CallNow == Val(e_call)[3]

\* seconds between the last direct call and the one before it for the address
CallDt == CallNow - e_prev[CallAddress][1]

\* C11: a call for an address already observed adds power x elapsed time to
\* the address's accumulator exactly when the elapsed time is more than 0 and
\* less than 10 hours and a power is given, leaves the accumulator as it was
\* otherwise, and sets the address's timestamp to now in both cases.
C11_IntegrationWindow ==
    (~IsNone(e_call) /\ CallAddress \in DOMAIN e_prev) =>
        /\ energy_state[CallAddress][1] = CallNow
        /\ IF 0 < CallDt /\ CallDt < 10 * 3600 /\ ~IsNone(CallPower)
           THEN energy_state[CallAddress][2] =
                    e_prev[CallAddress][2] + Val(CallPower) * CallDt
           ELSE energy_state[CallAddress][2] = e_prev[CallAddress][2]

\* a call 9 hours after the previous one has changed the accumulator
C11_Witness ==
    /\ ~IsNone(e_call)
    /\ CallAddress \in DOMAIN e_prev
    /\ CallDt = 9 * 3600
    /\ ~IsNone(CallPower)
    /\ energy_state[CallAddress][2] # e_prev[CallAddress][2]
    /\ energy_state[CallAddress][1] = CallNow

\* a call exactly 10 hours after the previous one left a non-zero accumulator
\* as it was and moved the timestamp
C11_BoundaryReached ==
    /\ ~IsNone(e_call)
    /\ CallAddress \in DOMAIN e_prev
    /\ CallDt = 10 * 3600
    /\ ~IsNone(CallPower)
    /\ e_prev[CallAddress][2] # 0
    /\ energy_state[CallAddress] = <<CallNow, e_prev[CallAddress][2]>>

RECURSIVE SoloState(_, _)
\* _energy_state of a client that saw only the first n calls of hist, all for
\* one device
SoloState(hist, n) ==
    IF n = 0 THEN [a \in {} |-> <<0, 0>>]
    ELSE integrate_energy(SoloState(hist, n - 1), "solo",
                          hist[n][1], hist[n][2]).state

\* what the last call of hist returns on that client
SoloReturn(hist) ==
    integrate_energy(SoloState(hist, Len(hist) - 1), "solo",
                     hist[Len(hist)][1], hist[Len(hist)][2]).ret

\* C12: a call for address A leaves the entries of the other addresses as
\* they were, its return value is the one a client that saw only A's calls
\* returns, and the first call for A stores (now, 0) and returns 0.
C12_AddressesIndependent ==
    ~IsNone(e_call) =>
        /\ DOMAIN energy_state = DOMAIN e_prev \cup {CallAddress}
        /\ \A b \in DOMAIN e_prev \ {CallAddress} : energy_state[b] = e_prev[b]
        /\ e_ret = SoloReturn(e_hist[CallAddress])
        /\ CallAddress \notin DOMAIN e_prev =>
               /\ energy_state[CallAddress] = <<CallNow, 0>>
               /\ e_ret = 0

\* a second call for A returned energy while B, observed at another time,
\* kept its entry
C12_Witness ==
    /\ ~IsNone(e_call)
    /\ DOMAIN e_prev = Addresses
    /\ Len(e_hist[CallAddress]) = 2
    /\ e_ret # 0
    /\ \E b \in Addresses \ {CallAddress} :
           /\ energy_state[b] = e_prev[b]
           /\ energy_state[b][1] # e_prev[CallAddress][1]

----------------------------------------------------------------------------
(* Properties of the wait for the payload *)

\* the wait budget is used up
BudgetSpent == now - start >= MAX_NOTIFICATION_WAIT_TIME

\* this step is a wake-up of the wait by the notification signal
WakeUp == pc = "waiting" /\ event /\ ~event'

\* this step raises the wait timeout
TimesOut == pc \in {"start_notify", "waiting"} /\ faults' = Append(faults, WaitTimeoutError)

\* C13: the deadline of the wait is fixed when the subscription is made: no
\* step taken while waiting moves `start`, a wake-up that finds the buffer still
\* short waits again only while less than max_notification_wait_time has
\* passed since `start` and otherwise leaves the wait with the timeout failure,
\* and the timeout is never raised before that time has passed.
C13_DeadlineFixed ==
    [][ /\ pc = "waiting" => start' = start
        /\ (WakeUp /\ Len(payload) < SHUNT_EXPECTED_PAYLOAD_LENGTH) =>
               IF BudgetSpent
               THEN /\ pc' \notin {"waiting", "stop_notify"}
                    /\ faults' = Append(faults, WaitTimeoutError)
                    /\ error' = Some(WaitTimeoutError)
               ELSE pc' = "waiting" /\ faults' = faults
        /\ TimesOut => BudgetSpent
      ]_vars

\* a session that woke up on a partial delivery returned the timeout failure
C13_Witness ==
    /\ pc = "returned"
    /\ faults = <<WaitTimeoutError>>
    /\ 0 < Len(payload)
    /\ Len(payload) < SHUNT_EXPECTED_PAYLOAD_LENGTH
    /\ ~event
    /\ BudgetSpent
    /\ Val(result).error = Some(WaitTimeoutError)

----------------------------------------------------------------------------
(* Properties of the reported outcome *)

\* the failures read_device reports rather than raises
ReportedFailures == ConnectErrors \cup {SubscribeError, WaitTimeoutError,
                                       ParseError, DisconnectError}

\* C14: a session in which a connect error, connect timeout, subscribe error,
\* wait timeout, decode failure or disconnect error occurred returns a result
\* with success false and an error, and only a cancelled session raises.
C14_FailuresReported ==
    /\ (pc = "returned" /\ \E i \in 1..Len(faults) : faults[i] \in ReportedFailures) =>
           /\ ~Val(result).success
           /\ ~IsNone(Val(result).error)
    /\ pc = "raised" => cancelled_at # "none"

\* the errors captured before the disconnect failed
EarlierFaults == SubSeq(faults, 1, Len(faults) - 1)

\* C15: when client.disconnect() raised, the returned error is the disconnect
\* error if no error was captured before it, and otherwise the error captured
\* before it (the latest one, of the timeout, parse and transport errors).
C15_DisconnectErrorLast ==
    (pc = "returned" /\ faults # <<>> /\ faults[Len(faults)] = DisconnectError) =>
        IF EarlierFaults = <<>>
        THEN Val(result).error = Some(DisconnectError)
        ELSE /\ Val(result).error = Some(EarlierFaults[Len(EarlierFaults)])
             /\ Val(result).error # Some(DisconnectError)

\* the wait timed out, then the disconnect failed: the timeout is returned
C15_Witness ==
    /\ pc = "returned"
    /\ faults = <<WaitTimeoutError, DisconnectError>>
    /\ Val(result).error = Some(WaitTimeoutError)

----------------------------------------------------------------------------
(* Properties of the stored reading *)

\* the bytes the session decoded
DecodedFrame == Slice(payload, 0, SHUNT_EXPECTED_PAYLOAD_LENGTH)

\* the mapping the decoder made of them
NewReading == Val(parse_shunt_payload(DecodedFrame))

\* C16: after a successful read the device's parsed_data has exactly the keys
\* of the new decode plus raw_payload and raw_words, every value is the one
\* the new decode, the energy integrator or the raw frame gives, no key of the
\* parsed_data the device held before the read is left over, and the
\* result's parsed_data equals the device's.
C16_ParsedDataReplaced ==
    (pc = "returned" /\ Val(result).success) =>
        /\ ~IsNone(parse_shunt_payload(DecodedFrame))
        /\ DOMAIN parsed_data = DOMAIN NewReading \cup {"raw_payload", "raw_words"}
        /\ \A k \in DOMAIN pre_data \ (DOMAIN NewReading \cup {"raw_payload", "raw_words"}) :
               k \notin DOMAIN parsed_data
        /\ \A k \in DOMAIN NewReading \ {KEY_SHUNT_ENERGY} :
               parsed_data[k] = NewReading[k]
        /\ parsed_data[KEY_SHUNT_ENERGY] =
               Some(RoundKwh3(energy_state[DeviceAddress][2]))
        /\ parsed_data["raw_payload"] = Hex(DecodedFrame)
        /\ parsed_data["raw_words"] = RawWords(DecodedFrame)
        /\ Val(result).parsed_data = parsed_data

\* a successful read of a device that held a key the decoder does not produce
C16_Witness ==
    /\ pc = "returned"
    /\ Val(result).success
    /\ "battery_voltage" \in DOMAIN pre_data
    /\ "battery_voltage" \notin DOMAIN parsed_data
    /\ "raw_words" \in DOMAIN Val(result).parsed_data

----------------------------------------------------------------------------
(* Properties of the accumulation of the payload *)

\* this step enters the parsing of the buffer
EntersParsing == calls' = Append(calls, "stop_notify")

\* the session is running
InSession == pc \in AwaitPoints

\* C18: the buffer is parsed only once it holds expected_length bytes; a
\* wake-up that finds it shorter parses nothing and, with budget left, waits
\* again; and no step of a running session takes a byte out of the buffer.
C18_ParseOnlyWhenComplete ==
    [][ /\ EntersParsing => Len(payload) >= SHUNT_EXPECTED_PAYLOAD_LENGTH
        /\ (WakeUp /\ Len(payload) < SHUNT_EXPECTED_PAYLOAD_LENGTH) =>
               /\ ~EntersParsing
               /\ ~success'
               /\ ~BudgetSpent => pc' = "waiting"
        /\ InSession =>
               /\ Len(payload') >= Len(payload)
               /\ SubSeq(payload', 1, Len(payload)) = payload
      ]_vars

\* the session waits again after a wake-up on part of a frame, the rest of
\* which is still to come
C18_Witness ==
    /\ pc = "waiting"
    /\ ~event
    /\ 0 < Len(payload)
    /\ Len(payload) < SHUNT_EXPECTED_PAYLOAD_LENGTH
    /\ Len(payload) + Len(stream) >= SHUNT_EXPECTED_PAYLOAD_LENGTH

----------------------------------------------------------------------------
(* Properties of the returned result, of the unsubscription *)

\* C19: a returned result has success true exactly when its error is absent.
C19_SuccessIffNoError ==
    pc = "returned" => (Val(result).success <=> IsNone(Val(result).error))

\* position of the first call of the name in the session's calls, 0 if none
FirstCall(name) ==
    IF \E i \in 1..Len(calls) : calls[i] = name
    THEN CHOOSE i \in 1..Len(calls) :
             calls[i] = name /\ \A j \in 1..(i - 1) : calls[j] # name
    ELSE 0

\* start_notify was called and did not raise
SubscriptionMade == FirstCall("start_notify") > 0 /\ SubscribeError \notin
                        {faults[i] : i \in 1..Len(faults)}

\* C20: a session that subscribed and returned has called stop_notify, and
\* called it before disconnect.
C20_UnsubscribesBeforeDisconnect ==
    (pc = "returned" /\ SubscriptionMade) =>
        /\ FirstCall("stop_notify") > 0
        /\ FirstCall("disconnect") > 0 =>
               FirstCall("stop_notify") < FirstCall("disconnect")

----------------------------------------------------------------------------
(* Properties of the availability tracker *)

RECURSIVE TrailingFailures(_)
\* number of failures since the last success, or since the start
TrailingFailures(h) ==
    IF h = <<>> \/ h[Len(h)] THEN 0
    ELSE 1 + TrailingFailures(SubSeq(h, 1, Len(h) - 1))

\* C17: after any sequence of update_availability calls, failure_count is
\* the number of failures since the last success and the device is
\* unavailable exactly when the most recent 3 or more calls were failures.
C17_UnavailableAfterThreeFailures ==
    /\ failure_count = TrailingFailures(avail_hist)
    /\ ~available <=> TrailingFailures(avail_hist) >= 3

\* three failures made the device unavailable, then a success made it
\* available again with no failure counted
C17_Witness ==
    /\ Len(avail_hist) = 4
    /\ \A i \in 1..3 : ~avail_hist[i]
    /\ avail_hist[4]
    /\ available
    /\ failure_count = 0
    /\ ~IsNone(last_unavailable_time)

====
